---- MODULE Spec2Model ----
(***************************************************************************)
(* Majority-quorum consensus actor (Stateright_Sim/src/lib.rs) run by the  *)
(* three-actor model of Stateright_Sim/src/main.rs over an unordered,      *)
(* non-duplicating network.                                                *)
(*                                                                         *)
(* Specifications:                                                         *)
(*   Spec        the closed system: three actors, the in-flight multiset,  *)
(*               delivery in any order, the harness's self-propose seed.   *)
(*   SpecOpen    one actor driven by every well-typed (src, msg) delivery, *)
(*               used for the laws of the reducer on_msg itself.           *)
(*   SpecQuorum  ConsensusActor::new and has_quorum over peer counts and   *)
(*               vote sets, as test_quorum_calculation drives them.        *)
(*   SpecHash    two ConsensusState values whose vote sets are filled in   *)
(*               any order, and their Hash streams and equality.           *)
(*   SpecExplore the breadth-first explorer run by 1 or 4 workers over a   *)
(*               shared frontier and visited set.                          *)
(***************************************************************************)
EXTENDS Integers, Sequences, FiniteSets, Bags, TLC

VARIABLES actor_states, network, seeded, last, sent, delivered,
          actor, votes,
          state1, state2,
          threads, root, frontier, visited, pending, checked

\* actor_states and network are the model's configuration.  The others are
\* records kept beside it: who self-proposed what, the last step taken,
\* every envelope ever sent, every envelope ever delivered.
model_vars == <<actor_states, network, seeded, last, sent, delivered>>

\* A ConsensusActor built by new() and the vote set handed to has_quorum.
quorum_vars == <<actor, votes>>

\* Two ConsensusState values, each with the order its HashSet iterates in.
hash_vars == <<state1, state2>>

\* The explorer: worker count, initial configuration, shared queue and
\* shared visited set, each worker's successors not yet offered to the
\* visited set, and how often each configuration was property-checked.
bfs_vars == <<threads, root, frontier, visited, pending, checked>>

vars == <<model_vars, quorum_vars, hash_vars, bfs_vars>>

(***************************************************************************)
(* Protocol types                                                          *)
(***************************************************************************)
NumNodes == 3

Value == {"V0", "V1", "V2"}

None == "None"

NodeRole == {"Follower", "Candidate", "Leader", "Decided"}

Propose(v) == [type |-> "Propose", value |-> v]

Vote(v) == [type |-> "Vote", value |-> v]

Commit(v) == [type |-> "Commit", value |-> v]

ConsensusMsg == {Propose(v) : v \in Value} \cup {Vote(v) : v \in Value}
                  \cup {Commit(v) : v \in Value}

\* peer_ids: Vec<Id> = (0..3).map(Id::from).collect()
peer_ids == [i \in 1..NumNodes |-> i - 1]

Ids == {peer_ids[i] : i \in 1..Len(peer_ids)}

\* Fault variant: the majority taken as the rounded-up half.
new_ceil(peers) ==
    [peer_ids |-> peers, quorum_size |-> (Len(peers) + 1) \div 2]

\* ConsensusActor::new: quorum_size = (peer_ids.len() / 2) + 1
new(peers) ==
    [peer_ids |-> peers, quorum_size |-> (Len(peers) \div 2) + 1]

\* The quorum_size of the three actors of the model.
quorum_size == new(peer_ids).quorum_size

\* Fault variant: the comparison the comment on has_quorum says it replaced,
\* votes.len() >= peer_ids.len() / 2.
has_quorum_half(vs) == Cardinality(vs) >= Len(peer_ids) \div 2

\* has_quorum of the actor self: votes.len() >= self.quorum_size.
self_has_quorum(self, vs) == Cardinality(vs) >= self.quorum_size

\* has_quorum of the three actors of the model.
has_quorum(vs) == self_has_quorum(new(peer_ids), vs)

\* One Out::send(dst, msg) command.
Send(dst, msg) == [dst |-> dst, msg |-> msg]

RECURSIVE broadcast_from(_, _, _)
broadcast_from(i, my_id, msg) ==
    IF i > Len(peer_ids) THEN <<>>
    ELSE IF peer_ids[i] # my_id
         THEN <<Send(peer_ids[i], msg)>> \o broadcast_from(i + 1, my_id, msg)
         ELSE broadcast_from(i + 1, my_id, msg)

\* Fault variant: the peer != my_id test dropped, so the sender is sent to too.
broadcast_all(my_id, msg) == [i \in 1..Len(peer_ids) |-> Send(peer_ids[i], msg)]

\* broadcast: one send per peer other than my_id, in peer_ids order.
broadcast(my_id, msg) == broadcast_from(1, my_id, msg)

\* Fault variant: an actor that starts as a Candidate.
on_start_candidate ==
    [role |-> "Candidate", proposed_value |-> None,
     votes_received |-> {}, decided_value |-> None]

on_start ==
    [role |-> "Follower", proposed_value |-> None,
     votes_received |-> {}, decided_value |-> None]

(***************************************************************************)
(* The reducer.  Each arm returns the new state, the commands pushed to    *)
(* Out in order, and whether state.to_mut() was called (Cow::Owned).       *)
(***************************************************************************)
Ignored(state) == [state |-> state, out |-> <<>>, owned |-> FALSE]

\* Fault variant: the Vote is sent to the actor's own id instead of src.
on_msg_Propose_to_self(id, state, src, value) ==
    IF state.role = "Follower" /\ state.proposed_value = None
    THEN [state |-> [state EXCEPT !.proposed_value = value],
          out   |-> <<Send(id, Vote(value))>>,
          owned |-> TRUE]
    ELSE Ignored(state)

\* Fault variant: the proposed_value.is_none() test dropped, so a Follower
\* votes for every Propose it gets.
on_msg_Propose_revote(id, state, src, value) ==
    IF state.role = "Follower"
    THEN [state |-> [state EXCEPT !.proposed_value = value],
          out   |-> <<Send(src, Vote(value))>>,
          owned |-> TRUE]
    ELSE Ignored(state)

\* Fault variant: the role test dropped, so any actor without a proposed
\* value votes.
on_msg_Propose_any_role(id, state, src, value) ==
    IF state.proposed_value = None
    THEN [state |-> [state EXCEPT !.proposed_value = value],
          out   |-> <<Send(src, Vote(value))>>,
          owned |-> TRUE]
    ELSE Ignored(state)

on_msg_Propose(id, state, src, value) ==
    IF state.role = "Follower" /\ state.proposed_value = None
    THEN [state |-> [state EXCEPT !.proposed_value = value],
          out   |-> <<Send(src, Vote(value))>>,
          owned |-> TRUE]
    ELSE Ignored(state)

\* Fault variant: quorum reached and Commit broadcast, but the role
\* assignment forgotten.
on_msg_Vote_no_leader(id, state, src, value) ==
    IF state.role = "Candidate" /\ state.proposed_value = value
    THEN LET vs == state.votes_received \cup {src}
         IN  [state |-> [state EXCEPT !.votes_received = vs],
              out   |-> IF has_quorum(vs) THEN broadcast(id, Commit(value))
                        ELSE <<>>,
              owned |-> TRUE]
    ELSE Ignored(state)

\* Fault variant: the proposed_value == Some(value) test dropped, so a Vote
\* for any value is counted.
on_msg_Vote_any_value(id, state, src, value) ==
    IF state.role = "Candidate"
    THEN LET vs == state.votes_received \cup {src}
         IN  IF has_quorum(vs)
             THEN [state |-> [state EXCEPT !.votes_received = vs,
                                           !.role = "Leader"],
                   out   |-> broadcast(id, Commit(value)),
                   owned |-> TRUE]
             ELSE [state |-> [state EXCEPT !.votes_received = vs],
                   out   |-> <<>>,
                   owned |-> TRUE]
    ELSE Ignored(state)

on_msg_Vote(id, state, src, value) ==
    IF state.role = "Candidate" /\ state.proposed_value = value
    THEN LET vs == state.votes_received \cup {src}
         IN  IF has_quorum(vs)
             THEN [state |-> [state EXCEPT !.votes_received = vs,
                                           !.role = "Leader"],
                   out   |-> broadcast(id, Commit(value)),
                   owned |-> TRUE]
             ELSE [state |-> [state EXCEPT !.votes_received = vs],
                   out   |-> <<>>,
                   owned |-> TRUE]
    ELSE Ignored(state)

\* Fault variant: the two assignments of the Commit arm exchanged, so the
\* role tag lands in decided_value.
on_msg_Commit_swapped(id, state, src, value) ==
    IF state.decided_value = None
    THEN [state |-> [state EXCEPT !.decided_value = "Decided",
                                  !.role = value],
          out   |-> <<>>,
          owned |-> TRUE]
    ELSE Ignored(state)

\* Fault variant: only a Follower accepts a Commit.
on_msg_Commit_follower_only(id, state, src, value) ==
    IF state.decided_value = None /\ state.role = "Follower"
    THEN [state |-> [state EXCEPT !.decided_value = value,
                                  !.role = "Decided"],
          out   |-> <<>>,
          owned |-> TRUE]
    ELSE Ignored(state)

\* Fault variant: the role assignment of the Commit arm forgotten.
on_msg_Commit_keeps_role(id, state, src, value) ==
    IF state.decided_value = None
    THEN [state |-> [state EXCEPT !.decided_value = value],
          out   |-> <<>>,
          owned |-> TRUE]
    ELSE Ignored(state)

\* Fault variant: the decided_value.is_none() test dropped.
on_msg_Commit_unguarded(id, state, src, value) ==
    [state |-> [state EXCEPT !.decided_value = value, !.role = "Decided"],
     out   |-> <<>>,
     owned |-> TRUE]

on_msg_Commit(id, state, src, value) ==
    IF state.decided_value = None
    THEN [state |-> [state EXCEPT !.decided_value = value,
                                  !.role = "Decided"],
          out   |-> <<>>,
          owned |-> TRUE]
    ELSE Ignored(state)

on_msg(id, state, src, msg) ==
    CASE msg.type = "Propose" -> on_msg_Propose(id, state, src, msg.value)
      [] msg.type = "Vote"    -> on_msg_Vote(id, state, src, msg.value)
      [] msg.type = "Commit"  -> on_msg_Commit(id, state, src, msg.value)

(***************************************************************************)
(* Property helpers of lib.rs, over the vector of actor states.            *)
(***************************************************************************)
\* filter_map(|s| s.decided_value): the decided values in actor order.
RECURSIVE decided_from(_, _)
decided_from(states, i) ==
    IF i > NumNodes THEN <<>>
    ELSE IF states[peer_ids[i]].decided_value # None
         THEN <<states[peer_ids[i]].decided_value>> \o decided_from(states, i + 1)
         ELSE decided_from(states, i + 1)

check_agreement(states) ==
    LET decided == decided_from(states, 1)
    IN  IF Len(decided) < 2 THEN TRUE
        ELSE \A k \in 1..Len(decided) : decided[k] = decided[1]

check_validity(states) ==
    \A p \in Ids : states[p].decided_value = None
                   \/ states[p].decided_value \in {"V0", "V1", "V2"}

has_decision(states) == \E p \in Ids : states[p].decided_value # None

(***************************************************************************)
(* The closed system: ActorModel with three actors over                    *)
(* Network::new_unordered_nonduplicating([]).  A configuration is the      *)
(* vector of actor states with the multiset of envelopes in flight.        *)
(***************************************************************************)
Envelope(src, dst, msg) == [src |-> src, dst |-> dst, msg |-> msg]

Envelopes == [src : Ids, dst : Ids, msg : ConsensusMsg]

RECURSIVE SentBag(_, _)
SentBag(src, out) ==
    IF out = <<>> THEN EmptyBag
    ELSE SetToBag({Envelope(src, Head(out).dst, Head(out).msg)})
           (+) SentBag(src, Tail(out))

\* What the recipient's on_msg answers to the envelope.
Receive(states, env) == on_msg(env.dst, states[env.dst], env.src, env.msg)

\* Fault variant: a duplicating network, which keeps the delivered envelope.
next_state_keep(cfg, env) ==
    LET r == Receive(cfg.actor_states, env)
    IN  [actor_states |-> [cfg.actor_states EXCEPT ![env.dst] = r.state],
         network      |-> cfg.network (+) SentBag(env.dst, r.out)]

\* Fault variant: the new state stored at the sender's index.
next_state_at_src(cfg, env) ==
    LET r == Receive(cfg.actor_states, env)
    IN  [actor_states |-> [cfg.actor_states EXCEPT ![env.src] = r.state],
         network      |-> (cfg.network (-) SetToBag({env}))
                            (+) SentBag(env.dst, r.out)]

\* The successor configuration of delivering env: the envelope leaves the
\* multiset, the recipient's state is replaced, its sends join the multiset.
\* An envelope the recipient ignores is taken out of the multiset as well.
next_state(cfg, env) ==
    LET r == Receive(cfg.actor_states, env)
    IN  [actor_states |-> [cfg.actor_states EXCEPT ![env.dst] = r.state],
         network      |-> (cfg.network (-) SetToBag({env}))
                            (+) SentBag(env.dst, r.out)]

\* The delivery actions enabled in cfg, applied: one successor per distinct
\* envelope in flight.
Successors(cfg) == {next_state(cfg, env) : env \in BagToSet(cfg.network)}

\* Breadth-first exploration: expand the frontier, keep what was not visited.
RECURSIVE bfs(_, _)
bfs(level, seen) ==
    IF level = {} THEN seen
    ELSE LET found == (UNION {Successors(cfg) : cfg \in level}) \ seen
         IN  bfs(found, seen \cup found)

\* Every configuration some delivery order reaches from cfg.
Reachable(cfg) == bfs({cfg}, {cfg})

NoMsg == [type |-> "None", value |-> None]

\* A ConsensusState together with the order votes_received.iter() yields.
Hashed(st, order) == [state |-> st, iter |-> order]

\* The configuration run_checker starts from.
InitialCfg == [actor_states |-> [p \in Ids |-> on_start], network |-> EmptyBag]

\* The other parts of the module at rest.
QuorumIdle == actor = new(peer_ids) /\ votes = {}

HashIdle == state1 = Hashed(on_start, <<>>) /\ state2 = state1

BfsIdle ==
    /\ threads = 1
    /\ root = InitialCfg
    /\ frontier = <<>>
    /\ visited = {InitialCfg}
    /\ pending = [w \in 1..1 |-> {}]
    /\ checked = SetToBag({InitialCfg})

ModelInit ==
    /\ actor_states = [p \in Ids |-> on_start]
    /\ network = EmptyBag
    /\ seeded = [p \in Ids |-> None]
    /\ last = [kind |-> "init", src |-> 0, dst |-> 0, msg |-> NoMsg, out |-> <<>>]
    /\ sent = EmptyBag
    /\ delivered = EmptyBag

Init == ModelInit /\ QuorumIdle /\ HashIdle /\ BfsIdle

\* The harness's self-propose at p: a Follower becomes Candidate for v and
\* Propose(v) is emitted to every other peer.
SelfPropose(p, v) ==
    /\ actor_states[p].role = "Follower"
    /\ actor_states' = [actor_states EXCEPT
                          ![p] = [@ EXCEPT !.role = "Candidate",
                                           !.proposed_value = v]]
    /\ seeded' = [seeded EXCEPT ![p] = v]
    /\ last' = [kind |-> "seed", src |-> p, dst |-> p, msg |-> Propose(v),
                out |-> broadcast(p, Propose(v))]

Seed(p, v) ==
    /\ SelfPropose(p, v)
    /\ network' = network (+) SentBag(p, broadcast(p, Propose(v)))
    /\ sent' = sent (+) SentBag(p, broadcast(p, Propose(v)))
    /\ UNCHANGED <<delivered, quorum_vars, hash_vars, bfs_vars>>

\* Deliver one in-flight envelope.
Deliver(env) ==
    /\ BagIn(env, network)
    /\ LET cfg == next_state([actor_states |-> actor_states,
                              network |-> network], env)
       IN  /\ actor_states' = cfg.actor_states
           /\ network' = cfg.network
    /\ last' = [kind |-> "deliver", src |-> env.src, dst |-> env.dst,
                msg |-> env.msg, out |-> Receive(actor_states, env).out]
    /\ sent' = sent (+) SentBag(env.dst, Receive(actor_states, env).out)
    /\ delivered' = delivered (+) SetToBag({env})
    /\ UNCHANGED <<seeded, quorum_vars, hash_vars, bfs_vars>>

SeedAny == \E p \in Ids, v \in Value : Seed(p, v)

DeliverPropose == \E env \in Envelopes : env.msg.type = "Propose" /\ Deliver(env)

DeliverVote == \E env \in Envelopes : env.msg.type = "Vote" /\ Deliver(env)

DeliverCommit == \E env \in Envelopes : env.msg.type = "Commit" /\ Deliver(env)

Next == SeedAny \/ DeliverPropose \/ DeliverVote \/ DeliverCommit

Spec == Init /\ [][Next]_vars

(***************************************************************************)
(* The open system: one actor receives any well-typed (src, msg), whether  *)
(* or not a peer would have sent it.  The other actors stay as started and *)
(* the in-flight multiset is not tracked; what the actor sends is kept in  *)
(* last.out; sent and delivered are not kept.                              *)
(***************************************************************************)
Alone(p) == \A q \in Ids \ {p} : actor_states[q] = on_start

OpenSeed(p, v) ==
    /\ Alone(p)
    /\ SelfPropose(p, v)
    /\ UNCHANGED <<network, sent, delivered, quorum_vars, hash_vars, bfs_vars>>

OpenDeliver(env) ==
    /\ Alone(env.dst)
    /\ actor_states' = [actor_states EXCEPT
                          ![env.dst] = Receive(actor_states, env).state]
    /\ last' = [kind |-> "deliver", src |-> env.src, dst |-> env.dst,
                msg |-> env.msg, out |-> Receive(actor_states, env).out]
    /\ UNCHANGED <<network, seeded, sent, delivered, quorum_vars, hash_vars, bfs_vars>>

OpenSeedAny == \E p \in Ids, v \in Value : OpenSeed(p, v)

OpenPropose == \E env \in Envelopes : env.msg.type = "Propose" /\ OpenDeliver(env)

OpenVote == \E env \in Envelopes : env.msg.type = "Vote" /\ OpenDeliver(env)

OpenCommit == \E env \in Envelopes : env.msg.type = "Commit" /\ OpenDeliver(env)

NextOpen == OpenSeedAny \/ OpenPropose \/ OpenVote \/ OpenCommit

SpecOpen == Init /\ [][NextOpen]_vars

(***************************************************************************)
(* Quorum arithmetic: an actor is built for 1..MaxPeers peers and votes    *)
(* of its peers are inserted one at a time into the set has_quorum reads.  *)
(***************************************************************************)
MaxPeers == 6

PeerIdsOf(n) == [i \in 1..n |-> i - 1]

InitQuorum ==
    /\ ModelInit
    /\ \E n \in 1..MaxPeers : actor = new(PeerIdsOf(n))
    /\ votes = {}
    /\ HashIdle
    /\ BfsIdle

InsertVote(id) ==
    /\ id \notin votes
    /\ votes' = votes \cup {id}
    /\ UNCHANGED <<model_vars, actor, hash_vars, bfs_vars>>

NextQuorum ==
    \E i \in 1..Len(actor.peer_ids) : InsertVote(actor.peer_ids[i])

SpecQuorum == InitQuorum /\ [][NextQuorum]_vars

(***************************************************************************)
(* Hashing and equality of ConsensusState.  A HashSet yields its members   *)
(* in an order that depends on how it was filled, so a state is kept with  *)
(* that order; every order of the members is possible after an insert.     *)
(***************************************************************************)
\* The orders in which a HashSet holding the members of S may iterate.
IterOrders(S) ==
    {f \in [1..Cardinality(S) -> S] :
        \A i, j \in 1..Cardinality(S) : f[i] = f[j] => i = j}

\* x placed into the ascending sequence sorted, by the order of Id.
RECURSIVE insert_sorted(_, _)
insert_sorted(x, sorted) ==
    IF sorted = <<>> THEN <<x>>
    ELSE IF x <= Head(sorted) THEN <<x>> \o sorted
    ELSE <<Head(sorted)>> \o insert_sorted(x, Tail(sorted))

\* votes.sort()
RECURSIVE sort(_)
sort(seq) ==
    IF seq = <<>> THEN <<>> ELSE insert_sorted(Head(seq), sort(Tail(seq)))

\* Fault variant: the votes hashed in iteration order, without the sort.
hash_unsorted(self) ==
    <<self.state.role, self.state.proposed_value,
      self.iter, self.state.decided_value>>

\* impl Hash for ConsensusState: what is fed to the Hasher, in order: role,
\* proposed_value, the votes collected from iter() and sorted, decided_value.
hash(self) ==
    <<self.state.role, self.state.proposed_value,
      sort(self.iter), self.state.decided_value>>

\* derive(PartialEq): field by field, votes_received compared as sets.
eq(a, b) == a.state = b.state

\* votes_received.insert(id) on self.
insert(self, id, order) ==
    Hashed([self.state EXCEPT !.votes_received = @ \cup {id}], order)

InitHash ==
    /\ ModelInit
    /\ QuorumIdle
    /\ BfsIdle
    /\ \E r \in NodeRole, pv, dv \in Value \cup {None} :
          state1 = Hashed([role |-> r, proposed_value |-> pv,
                           votes_received |-> {}, decided_value |-> dv], <<>>)
    /\ state2 = state1

InsertInto1(id) ==
    /\ id \notin state1.state.votes_received
    /\ \E order \in IterOrders(state1.state.votes_received \cup {id}) :
          state1' = insert(state1, id, order)
    /\ UNCHANGED <<model_vars, quorum_vars, state2, bfs_vars>>

InsertInto2(id) ==
    /\ id \notin state2.state.votes_received
    /\ \E order \in IterOrders(state2.state.votes_received \cup {id}) :
          state2' = insert(state2, id, order)
    /\ UNCHANGED <<model_vars, quorum_vars, state1, bfs_vars>>

\* state2.role = r
SetRole2(r) ==
    /\ state2.state.role # r
    /\ state2' = [state2 EXCEPT !.state.role = r]
    /\ UNCHANGED <<model_vars, quorum_vars, state1, bfs_vars>>

NextHash ==
    \/ \E id \in Ids : InsertInto1(id)
    \/ \E id \in Ids : InsertInto2(id)
    \/ \E r \in NodeRole : SetRole2(r)

SpecHash == InitHash /\ [][NextHash]_vars

(***************************************************************************)
(* The breadth-first explorer.  Workers share the frontier queue and the   *)
(* visited set.  A worker takes the head of the frontier and computes its  *)
(* successors, then offers them one by one to the visited set; the offer   *)
(* is one atomic insert-if-absent, and the worker whose insert succeeds    *)
(* enqueues the configuration and evaluates the properties on it.          *)
(***************************************************************************)
\* checker().threads(1) in the test, checker().threads(4) in run_checker.
Threads == {1, 4}

\* The configuration cfg after actor p has proposed v to its peers.
seed_cfg(cfg, p, v) ==
    [actor_states |-> [cfg.actor_states EXCEPT
                         ![p] = [@ EXCEPT !.role = "Candidate",
                                          !.proposed_value = v]],
     network      |-> cfg.network (+) SentBag(p, broadcast(p, Propose(v)))]

\* Initial configurations explored: the unseeded one of run_checker, and
\* the one in which actor 0 has proposed V0.
Roots == {InitialCfg, seed_cfg(InitialCfg, 0, "V0")}

\* What a sequential exploration finds from each initial configuration.
ReachableFrom == [r \in Roots |-> Reachable(r)]

\* Fault variant: an insert that reports success whether or not the
\* configuration was already in the set.
insert_always(vis, cfg) == TRUE

\* Insert-if-absent on the visited set: TRUE when cfg was not in it and this
\* call has put it there.
insert_if_absent(vis, cfg) == cfg \notin vis

InitExplore ==
    /\ ModelInit
    /\ QuorumIdle
    /\ HashIdle
    /\ threads \in Threads
    /\ root \in Roots
    /\ frontier = <<root>>
    /\ visited = {root}
    /\ pending = [w \in 1..threads |-> {}]
    /\ checked = SetToBag({root})

\* Worker w takes the head of the frontier and computes its successors.
Dequeue(w) ==
    /\ pending[w] = {}
    /\ frontier # <<>>
    /\ frontier' = Tail(frontier)
    /\ pending' = [pending EXCEPT ![w] = Successors(Head(frontier))]
    /\ UNCHANGED <<model_vars, quorum_vars, hash_vars,
                   threads, root, visited, checked>>

\* Worker w offers successor cfg to the visited set; if its insert wins it
\* enqueues cfg and evaluates the properties on it.
Offer(w, cfg) ==
    /\ cfg \in pending[w]
    /\ pending' = [pending EXCEPT ![w] = @ \ {cfg}]
    /\ IF insert_if_absent(visited, cfg)
         THEN /\ visited' = visited \cup {cfg}
              /\ frontier' = Append(frontier, cfg)
              /\ checked' = checked (+) SetToBag({cfg})
         ELSE UNCHANGED <<visited, frontier, checked>>
    /\ UNCHANGED <<model_vars, quorum_vars, hash_vars, threads, root>>

DequeueAny == \E w \in 1..threads : Dequeue(w)

OfferAny == \E w \in 1..threads : \E cfg \in pending[w] : Offer(w, cfg)

NextExplore == DequeueAny \/ OfferAny

SpecExplore == InitExplore /\ [][NextExplore]_vars

\* The exploration is complete: nothing queued, no expansion outstanding.
ExplorationDone ==
    /\ frontier = <<>>
    /\ \A w \in 1..threads : pending[w] = {}

(***************************************************************************)
(* Claims                                                                  *)
(***************************************************************************)
Decided == {p \in Ids : actor_states[p].decided_value # None}

DecidedValues == {actor_states[p].decided_value : p \in Decided}

SeededIds == {p \in Ids : seeded[p] # None}

\* C1 (Agreement): in every reachable configuration of the three-actor run,
\* whatever was seeded and in whatever order envelopes were delivered, the
\* decided values form a set of at most one element, and check_agreement
\* answers true.
C1_Agreement ==
    /\ Cardinality(DecidedValues) <= 1
    /\ check_agreement(actor_states)

\* Two actors have decided in a run where two Candidates proposed different
\* values.
C1_Witness ==
    /\ Cardinality(Decided) >= 2
    /\ \E p, q \in SeededIds : seeded[p] # seeded[q]

\* C2 (Validity): in every reachable configuration each decided_value is
\* empty or one of V0, V1, V2, and check_validity answers true.
C2_Validity ==
    /\ \A p \in Ids : actor_states[p].decided_value \in Value \cup {None}
    /\ check_validity(actor_states)

\* Some actor holds a decided value, one that a Candidate proposed.
C2_Witness ==
    \E p \in Decided, q \in SeededIds :
        actor_states[p].decided_value = seeded[q]

\* C3 (write-once decision): a step never changes a decided_value that is
\* set, whatever message the step delivers.
C3_WriteOnce ==
    [][\A p \in Ids :
         actor_states[p].decided_value # None
           => actor_states'[p].decided_value = actor_states[p].decided_value]_vars

\* A Commit for another value has just been delivered to an actor that had
\* decided, and its decision stands.
C3_Witness ==
    /\ last.kind = "deliver"
    /\ last.msg.type = "Commit"
    /\ last.out = <<>>
    /\ actor_states[last.dst].decided_value \in Value \ {last.msg.value}

\* Exactly one actor, p, has self-proposed, and its value was v.
OnlySeed(p, v) == seeded[p] = v /\ \A q \in Ids \ {p} : seeded[q] = None

\* C4 as stated (end-to-end scenario): with A = 0 the only seeded Candidate,
\* for V0, once the network is empty all three actors, A included, have
\* decided V0.
C4_AllThreeDecide ==
    (OnlySeed(0, "V0") /\ network = EmptyBag)
      => \A q \in Ids : actor_states[q].decided_value = "V0"

\* C4 as amended: with p the only seeded Candidate, for v, once the network
\* is empty the two other actors are Decided on v, while p itself is Leader
\* with both their votes and an empty decided_value (Commit is broadcast to
\* every peer except the sender, so no Commit ever reaches p).
C4_FollowersDecide ==
    \A p \in Ids, v \in Value :
        (OnlySeed(p, v) /\ network = EmptyBag)
          => /\ \A q \in Ids \ {p} :
                   /\ actor_states[q].decided_value = v
                   /\ actor_states[q].role = "Decided"
             /\ actor_states[p].role = "Leader"
             /\ actor_states[p].votes_received = Ids \ {p}
             /\ actor_states[p].decided_value = None

\* The scenario's final configuration: A = 0 seeded for V0, nothing in
\* flight, and the last step delivered a Commit.
C4_Witness ==
    /\ OnlySeed(0, "V0")
    /\ network = EmptyBag
    /\ last.kind = "deliver"
    /\ last.msg = Commit("V0")

\* C5 (Progress under a seed): with p the only seeded Candidate, a
\* configuration with a decision is reachable (the witness), and in every
\* such configuration p is Leader holding quorum_size votes: no decision
\* is reached except through p collecting 2 votes and becoming Leader.
C5_DecisionThroughLeader ==
    \A p \in Ids, v \in Value :
        (OnlySeed(p, v) /\ has_decision(actor_states))
          => /\ actor_states[p].role = "Leader"
             /\ Cardinality(actor_states[p].votes_received) = quorum_size
             /\ DecidedValues = {v}

\* A = 0 is the only seed, for V0, and some actor has decided.
C5_Witness == OnlySeed(0, "V0") /\ has_decision(actor_states)

\* C6 (liveness-absence): while no actor has been seeded, the configuration
\* is the initial one (all Follower, empty network), no delivery is
\* enabled, nobody is Candidate or decided, and Agreement and Validity hold.
C6_NoSeedNoProgress ==
    (SeededIds = {})
      => /\ actor_states = [p \in Ids |-> [role |-> "Follower",
                                           proposed_value |-> None,
                                           votes_received |-> {},
                                           decided_value |-> None]]
         /\ network = EmptyBag
         /\ ~ ENABLED (DeliverPropose \/ DeliverVote \/ DeliverCommit)
         /\ ~ has_decision(actor_states)
         /\ Decided = {}
         /\ check_agreement(actor_states)
         /\ check_validity(actor_states)

\* The configuration the model starts in, before any seed.
C6_Witness == SeededIds = {} /\ last.kind = "init" /\ network = EmptyBag

\* The values carried by the Commit envelopes in flight in net.
CommitValues(net) ==
    {env.msg.value : env \in {e \in BagToSet(net) : e.msg.type = "Commit"}}

\* The actors holding at least quorum_size votes.
QuorumHolders(states) ==
    {p \in Ids : Cardinality(states[p].votes_received) >= quorum_size}

\* p and q have both self-proposed, for different values.
Rivals(p, q) ==
    /\ p # q
    /\ seeded[p] # None
    /\ seeded[q] # None
    /\ seeded[p] # seeded[q]

\* Two Candidates for different values have just been seeded: all four
\* Propose envelopes are in flight and nothing has been delivered.
FreshRivals ==
    \E p, q \in Ids :
        /\ Rivals(p, q)
        /\ \A r \in Ids \ {p, q} : seeded[r] = None /\ actor_states[r] = on_start
        /\ \A r \in {p, q} :
               actor_states[r] = [on_start EXCEPT !.role = "Candidate",
                                                  !.proposed_value = seeded[r]]
        /\ network = SentBag(p, broadcast(p, Propose(seeded[p])))
                       (+) SentBag(q, broadcast(q, Propose(seeded[q])))

\* C7 as stated (divergent-vote scenario): from two freshly seeded rival
\* Candidates some delivery order reaches a configuration where both hold
\* quorum_size votes and Commit envelopes for two different values are in
\* flight.
C7_DivergentCommitsReachable ==
    FreshRivals
      => \E cfg \in Reachable([actor_states |-> actor_states,
                               network |-> network]) :
            /\ Cardinality(QuorumHolders(cfg.actor_states)) >= 2
            /\ Cardinality(CommitValues(cfg.network)) >= 2

\* C7 as amended: in a three-actor run where two actors were seeded as
\* Candidates for different values, no delivery order lets both collect
\* quorum_size votes: at most one actor ever holds quorum_size votes and
\* the Commit envelopes in flight carry at most one value.
C7_NoDivergentCommits ==
    (\E p, q \in Ids : Rivals(p, q))
      => /\ Cardinality(QuorumHolders(actor_states)) <= 1
         /\ Cardinality(CommitValues(network)) <= 1

\* Two rival Candidates exist, one has collected its quorum and its Commit
\* is in flight, the other is still Candidate for its own value.
C7_Witness ==
    \E p, q \in Ids :
        /\ Rivals(p, q)
        /\ QuorumHolders(actor_states) = {p}
        /\ CommitValues(network) = {seeded[p]}
        /\ actor_states[q].role = "Candidate"
        /\ actor_states[q].proposed_value = seeded[q]

\* The step just taken delivered msg from s to d.
Delivered(s, d, msg) ==
    /\ last'.kind = "deliver"
    /\ last'.src = s
    /\ last'.dst = d
    /\ last'.msg = msg

\* C8 (Propose rule): delivering Propose(v) from s to a Follower with an
\* empty proposed_value sets proposed_value to v, leaves role,
\* votes_received and decided_value as they were, and emits exactly one
\* message, Vote(v), addressed to s.
C8_ProposeRule ==
    [][\A s, d \in Ids, v \in Value :
         (/\ Delivered(s, d, Propose(v))
          /\ actor_states[d].role = "Follower"
          /\ actor_states[d].proposed_value = None)
           => /\ actor_states'[d].proposed_value = v
              /\ actor_states'[d].role = actor_states[d].role
              /\ actor_states'[d].votes_received = actor_states[d].votes_received
              /\ actor_states'[d].decided_value = actor_states[d].decided_value
              /\ Len(last'.out) = 1
              /\ last'.out[1] = [dst |-> s, msg |-> [type |-> "Vote", value |-> v]]]_vars

\* A Follower has just accepted a Propose from another actor and answered
\* with a Vote.
C8_Witness ==
    /\ last.kind = "deliver"
    /\ last.msg.type = "Propose"
    /\ last.src # last.dst
    /\ Len(last.out) = 1
    /\ actor_states[last.dst].role = "Follower"
    /\ actor_states[last.dst].proposed_value = last.msg.value

\* C9 (Vote rule): delivering Vote(v) from s to a Candidate whose
\* proposed_value is v adds s to votes_received; if the set then has
\* quorum_size members or more the actor becomes Leader and emits Commit(v)
\* to each peer but itself (NumNodes - 1 messages, none to itself), and
\* otherwise it stays Candidate and emits nothing.
C9_VoteRule ==
    [][\A s, d \in Ids, v \in Value :
         (/\ Delivered(s, d, Vote(v))
          /\ actor_states[d].role = "Candidate"
          /\ actor_states[d].proposed_value = v)
           => /\ actor_states'[d].votes_received
                   = actor_states[d].votes_received \cup {s}
              /\ actor_states'[d].proposed_value = v
              /\ actor_states'[d].decided_value = actor_states[d].decided_value
              /\ IF Cardinality(actor_states[d].votes_received \cup {s})
                      >= (NumNodes \div 2) + 1
                 THEN /\ actor_states'[d].role = "Leader"
                      /\ Len(last'.out) = NumNodes - 1
                      /\ {last'.out[i].dst : i \in 1..Len(last'.out)} = Ids \ {d}
                      /\ \A i \in 1..Len(last'.out) :
                             last'.out[i].msg = [type |-> "Commit", value |-> v]
                 ELSE /\ actor_states'[d].role = "Candidate"
                      /\ last'.out = <<>>]_vars

\* A Vote has just lifted a Candidate to Leader and its Commits went out.
C9_Witness ==
    /\ last.kind = "deliver"
    /\ last.msg.type = "Vote"
    /\ Len(last.out) = NumNodes - 1
    /\ actor_states[last.dst].role = "Leader"
    /\ last.src \in actor_states[last.dst].votes_received

\* C10 (Commit rule): delivering Commit(v) to an actor with an empty
\* decided_value sets decided_value to v and role to Decided whatever the
\* role was, leaves proposed_value and votes_received as they were, and
\* emits nothing.
C10_CommitRule ==
    [][\A s, d \in Ids, v \in Value :
         (/\ Delivered(s, d, Commit(v))
          /\ actor_states[d].decided_value = None)
           => /\ actor_states'[d].decided_value = v
              /\ actor_states'[d].role = "Decided"
              /\ actor_states'[d].proposed_value = actor_states[d].proposed_value
              /\ actor_states'[d].votes_received = actor_states[d].votes_received
              /\ last'.out = <<>>]_vars

\* A Commit has just been accepted by an actor that holds a quorum of
\* votes, that is, by one that was Leader.
C10_Witness ==
    /\ last.kind = "deliver"
    /\ last.msg.type = "Commit"
    /\ actor_states[last.dst].role = "Decided"
    /\ actor_states[last.dst].decided_value = last.msg.value
    /\ Cardinality(actor_states[last.dst].votes_received) >= quorum_size

\* msg is one the rules give no effect in state: a Propose to a non-Follower
\* or to an actor that has a proposed_value, a Vote to a non-Candidate or
\* for another value than its proposed_value, a Commit to a decided actor.
NotApplicable(state, msg) ==
    \/ /\ msg.type = "Propose"
       /\ (state.role # "Follower" \/ state.proposed_value # None)
    \/ /\ msg.type = "Vote"
       /\ (state.role # "Candidate" \/ state.proposed_value # msg.value)
    \/ /\ msg.type = "Commit"
       /\ state.decided_value # None

\* C11 (non-applicable messages are no-ops): delivering a non-applicable
\* message leaves the recipient's state exactly as it was and emits
\* nothing; the delivery only takes the envelope out of the network.
C11_NoOps ==
    [][\A s, d \in Ids, msg \in ConsensusMsg :
         (Delivered(s, d, msg) /\ NotApplicable(actor_states[d], msg))
           => /\ actor_states'[d] = actor_states[d]
              /\ last'.out = <<>>
              /\ next_state([actor_states |-> actor_states,
                             network |-> SetToBag({Envelope(s, d, msg)})],
                            Envelope(s, d, msg))
                   = [actor_states |-> actor_states, network |-> EmptyBag]]_vars

\* A Vote for another value than its own has just been delivered to a
\* Candidate, which still holds no vote.
C11_Witness ==
    /\ last.kind = "deliver"
    /\ last.msg.type = "Vote"
    /\ actor_states[last.dst].role = "Candidate"
    /\ actor_states[last.dst].proposed_value \in Value \ {last.msg.value}
    /\ actor_states[last.dst].votes_received = {}

\* C13: in every reachable configuration an actor whose decided_value is
\* set has role Decided.
C13_DecidedRole ==
    \A p \in Ids :
        actor_states[p].decided_value # None => actor_states[p].role = "Decided"

\* An actor that had self-proposed has decided.
C13_Witness == \E p \in SeededIds : actor_states[p].decided_value # None

\* C14 (Decided is terminal): once an actor's role is Decided no step
\* changes it, and a delivery to a Decided actor emits nothing.
C14_DecidedTerminal ==
    [][\A d \in Ids :
         actor_states[d].role = "Decided"
           => /\ actor_states'[d].role = "Decided"
              /\ (last'.kind = "deliver" /\ last'.dst = d) => last'.out = <<>>]_vars

\* A Propose has just been delivered to a Decided actor that never had a
\* proposed value.
C14_Witness ==
    /\ last.kind = "deliver"
    /\ last.msg.type = "Propose"
    /\ actor_states[last.dst].role = "Decided"
    /\ actor_states[last.dst].proposed_value = None

\* C16 (reducer frame): a delivery to d leaves the state of every other
\* actor as it was; the network loses the delivered envelope and gains
\* only envelopes sent by d.
C16_Frame ==
    [][\A s, d \in Ids, msg \in ConsensusMsg :
         Delivered(s, d, msg)
           => /\ \A q \in Ids \ {d} : actor_states'[q] = actor_states[q]
              /\ seeded' = seeded
              /\ \A e \in Envelopes :
                     /\ CopiesIn(e, network')
                          >= CopiesIn(e, network (-) SetToBag({Envelope(s, d, msg)}))
                     /\ CopiesIn(e, network')
                          > CopiesIn(e, network (-) SetToBag({Envelope(s, d, msg)}))
                        => e.src = d]_vars

\* A delivery has just changed its recipient and made it send, while
\* another actor is no longer in its start state.
C16_Witness ==
    /\ last.kind = "deliver"
    /\ Len(last.out) > 0
    /\ network # EmptyBag
    /\ \E q \in Ids \ {last.dst} : actor_states[q] # on_start

\* C15 (consume-once delivery): every envelope has been delivered at most
\* as often as it was sent, and the copies in flight are exactly the copies
\* sent and not yet delivered, so each delivery took one copy out and no
\* copy is delivered twice.
C15_ConsumeOnce ==
    \A e \in Envelopes :
        /\ CopiesIn(e, delivered) <= CopiesIn(e, sent)
        /\ CopiesIn(e, network) = CopiesIn(e, sent) - CopiesIn(e, delivered)

\* An envelope was sent once and delivered once and is no longer in
\* flight, while others still are.
C15_Witness ==
    /\ network # EmptyBag
    /\ \E e \in Envelopes :
           /\ CopiesIn(e, sent) = 1
           /\ CopiesIn(e, delivered) = 1
           /\ CopiesIn(e, network) = 0

\* The number of Vote envelopes p has sent, over the whole run.
VotesSent(bag, p) ==
    BagCardinality([e \in {x \in BagToSet(bag) :
                              x.src = p /\ x.msg.type = "Vote"} |-> bag[e]])

\* C19 (vote-once): over any run each actor sends at most one Vote, and a
\* Propose delivered to an actor that already has a proposed_value or is
\* Decided produces no message.
C19_VoteOnce ==
    [][/\ \A p \in Ids : VotesSent(sent', p) <= 1
       /\ \A s, d \in Ids, v \in Value :
              (/\ Delivered(s, d, Propose(v))
               /\ (actor_states[d].proposed_value # None
                     \/ actor_states[d].role = "Decided"))
                => last'.out = <<>>]_vars

\* An actor that has voted has just been delivered the Propose of another
\* Candidate, for another value.
C19_Witness ==
    /\ last.kind = "deliver"
    /\ last.msg.type = "Propose"
    /\ VotesSent(sent, last.dst) = 1
    /\ actor_states[last.dst].role = "Follower"
    /\ actor_states[last.dst].proposed_value \in Value \ {last.msg.value}

\* What a configuration can still cause: the envelopes in flight, one Vote
\* per Follower without a proposed value, NumNodes - 1 Commits per
\* Candidate, and per Follower one self-propose with all that follows it.
TerminationMeasure(states, net) ==
    BagCardinality(net)
      + Cardinality({p \in Ids : /\ states[p].role = "Follower"
                                 /\ states[p].proposed_value = None})
      + (NumNodes - 1) * Cardinality({p \in Ids : states[p].role = "Candidate"})
      + (2 * (NumNodes - 1) + 1)
          * Cardinality({p \in Ids : states[p].role = "Follower"})

\* C20 (termination): every step, a delivery above all, lowers a measure
\* that is a natural number, so a run from any seeded configuration
\* delivers finitely many envelopes, at most as many as the measure of the
\* configuration it starts from, and the reachable configurations are
\* finitely many.
C20_MeasureDecreases ==
    [][/\ TerminationMeasure(actor_states', network')
            < TerminationMeasure(actor_states, network)
       /\ TerminationMeasure(actor_states', network') >= 0
       /\ BagCardinality(delivered') + TerminationMeasure(actor_states', network')
            <= NumNodes * (2 * (NumNodes - 1) + 2)]_vars

\* A run has ended: six envelopes were delivered, nothing is in flight and
\* no delivery is enabled.
C20_Witness ==
    /\ BagCardinality(delivered) >= 2 * NumNodes
    /\ network = EmptyBag
    /\ ~ ENABLED (DeliverPropose \/ DeliverVote \/ DeliverCommit)

\* C12 (quorum size): for an actor with n >= 1 peers, quorum_size is
\* floor(n/2) + 1, the least count that is more than half of n (2 for
\* n = 3, 3 for n = 5), and has_quorum(votes) is true exactly when votes
\* has quorum_size members or more (for n = 3: false for 0 and 1, true
\* for 2).
C12_QuorumSize ==
    LET n == Len(actor.peer_ids)
        q == actor.quorum_size
        k == Cardinality(votes)
    IN  /\ n >= 1
        /\ 2 * q > n
        /\ 2 * (q - 1) <= n
        /\ \E h \in 0..n : n \in {2 * h, 2 * h + 1} /\ q = h + 1
        /\ n = 3 => q = 2
        /\ n = 5 => q = 3
        /\ self_has_quorum(actor, votes) <=> k >= q
        /\ self_has_quorum(actor, votes) <=> 2 * k > n
        /\ n = 3 => (self_has_quorum(actor, votes) <=> k \notin {0, 1})

\* Three of five peers have voted and that is a quorum.
C12_Witness ==
    /\ Len(actor.peer_ids) = 5
    /\ Cardinality(votes) = 3
    /\ self_has_quorum(actor, votes)

\* C17 (order-independent canonicalization): the stream hash feeds to the
\* Hasher depends on votes_received only as a set.  Two states whose role,
\* proposed_value and decided_value agree and whose vote sets have the same
\* members, in whatever order they were filled or iterate, have the same
\* hash, compare equal, and take one entry in a set keyed by the hash; and
\* states that compare unequal are not given the same stream.
C17_OrderIndependent ==
    /\ (/\ state1.state.role = state2.state.role
        /\ state1.state.proposed_value = state2.state.proposed_value
        /\ state1.state.decided_value = state2.state.decided_value
        /\ \A id \in Ids : id \in state1.state.votes_received
                              <=> id \in state2.state.votes_received)
         => /\ hash(state1) = hash(state2)
            /\ eq(state1, state2)
            /\ Cardinality({hash(state1), hash(state2)}) = 1
    /\ hash(state1) = hash(state2) <=> eq(state1, state2)
    /\ \A i, j \in 1..Len(hash(state1)[3]) :
           i < j => hash(state1)[3][i] < hash(state1)[3][j]
    /\ {hash(state1)[3][i] : i \in 1..Len(hash(state1)[3])}
         = state1.state.votes_received

\* The same two votes held in opposite iteration orders.
C17_Witness ==
    /\ Cardinality(state1.state.votes_received) = 2
    /\ state1.state.votes_received = state2.state.votes_received
    /\ state1.state.role = state2.state.role
    /\ state1.iter # state2.iter

\* C18 (worker-independent exploration): with 1 or 4 workers and in every
\* interleaving of their dequeue and insert steps, the visited set holds
\* only reachable configurations, every visited configuration was enqueued
\* and property-checked exactly once (no configuration is in the frontier
\* twice and none is checked without being visited), and when exploration
\* is complete the visited set is exactly the set of reachable
\* configurations, whatever the number of workers.
C18_WorkerIndependent ==
    /\ visited \subseteq ReachableFrom[root]
    /\ \A cfg \in visited : CopiesIn(cfg, checked) = 1
    /\ BagToSet(checked) = visited
    /\ \A i, j \in 1..Len(frontier) : frontier[i] = frontier[j] => i = j
    /\ \A i \in 1..Len(frontier) : frontier[i] \in visited
    /\ ExplorationDone => visited = ReachableFrom[root]

\* Two of four workers hold the same successor, and exploration runs on to
\* completion from there: the state is one where both are about to offer it.
C18_Witness ==
    /\ threads = 4
    /\ \E w1, w2 \in 1..threads :
          /\ w1 # w2
          /\ \E cfg \in pending[w1] \cap pending[w2] : cfg \notin visited

====
